---- MODULE Spec2Model ----
(***************************************************************************)
(* State-machine model of software_can_circuit_python.py: the              *)
(* DataAcquisitionSystem object (ADC128S022 + CD74HC4067 on SPI0, SD card  *)
(* on SPI0, MCP2515 on SPI1), its constructor, and its run loop.           *)
(*                                                                         *)
(* One action per statement group of the source; pc names the next         *)
(* statement group to execute.  Time is counted in ticks of 0.1 s.         *)
(***************************************************************************)
EXTENDS Integers, Sequences, FiniteSets, TLC

\* ------------------------------------------------------------ bounds
\* Clock readings explored (ticks of 0.1 s) with stop signal and bus errors.
MaxTime == 12
\* Clock readings explored (ticks of 0.1 s) in undisturbed runs of the loop.
MaxRunTime == 21
\* Longest time one loop iteration may take, sleep(0.1) included (ticks).
MaxSleep == 3
\* Analog scenes the environment may present are 0..MaxScene.
MaxScene == 1
\* Longest payload handed to send_can_message by the driver harness.
MaxPayload == 9

\* --------------------------------------------------- program constants
NumChannels == 23
LogPeriod == 10
CanPeriod == 5
SleepTicks == 1
ChunkSize == 8
BaseId == 256
OpReset == 192
OpWrite == 2
OpLoadTx == 64
OpRts == 129
RegCanCtrl == 15
ModeConfig == 128
ModeNormal == 0
ResetWaitUs == 10000

\* ------------------------------------------------------------ helpers
RECURSIVE BitAnd(_, _)
BitAnd(a, b) ==
    IF a = 0 \/ b = 0 THEN 0
    ELSE (IF a % 2 = 1 /\ b % 2 = 1 THEN 1 ELSE 0) + 2 * BitAnd(a \div 2, b \div 2)

RECURSIVE BitOr(_, _)
BitOr(a, b) ==
    IF a = 0 THEN b
    ELSE IF b = 0 THEN a
    ELSE (IF a % 2 = 1 \/ b % 2 = 1 THEN 1 ELSE 0) + 2 * BitOr(a \div 2, b \div 2)

IsByte(x) == x >= 0 /\ x <= 255

Zeros(n) == [k \in 1..n |-> 0]

\* seq[lo..hi) with Python slice clamping, 0-based offsets.
Slice(s, lo, hi) ==
    LET h == IF hi > Len(s) THEN Len(s) ELSE hi
    IN  IF lo >= h THEN << >> ELSE [k \in 1..(h - lo) |-> s[lo + k]]

RECURSIVE Flatten(_)
Flatten(ss) == IF ss = << >> THEN << >> ELSE Head(ss) \o Flatten(Tail(ss))


\* ------------------------------------------------------------ state
VARIABLES
    pc,             \* next statement group to execute
    exc,            \* exception in flight: "none", "Exception", "KeyboardInterrupt"
    now,            \* time.monotonic(), in ticks
    adc_data,       \* self.adc_data
    current_time,   \* run: current_time
    last_log_time,  \* self.last_log_time
    last_can_time,  \* self.last_can_time
    phase,          \* sample_all_channels: "direct" loop or "mux" loop
    i,              \* loop index of the loop in progress
    result,         \* read_adc_channel: result bytearray
    all_bytes,      \* send_adc_data_via_can: all_bytes
    id,             \* send_can_message: id
    data,           \* send_can_message: data
    caller,         \* who called send_can_message
    adc_cs,         \* pin levels: TRUE is high (deselected)
    can_cs,
    mux_cs,
    mux_s,          \* <<s0, s1, s2, s3>>
    spi0,           \* [locked, cfg]
    spi1,
    can_mode,       \* MCP2515 mode as driven by the commands it received
    can_log,        \* SPI1 wire events of the driver call in progress
    frames,         \* header+payload bursts the controller was asked to send
    adc_log,        \* SPI0 and multiplexer events of the direct reads of this cycle,
                    \* or of the multiplexed read in progress
    mounted,        \* /sd is mounted
    scene,          \* analog levels presented to the inputs
    log_calls,      \* log_data_to_sd invocations so far
    can_calls,      \* send_adc_data_via_can invocations so far
    log_result,     \* outcome of the latest log_data_to_sd
    remounts,       \* storage.mount calls of the latest log_data_to_sd
    umount_calls,   \* storage.umount calls so far
    exit_kind       \* how run ended: "none", "returned", "raised"

prog == <<adc_data, current_time, last_log_time, last_can_time, phase, i,
          result, all_bytes, id, data, caller>>
pins == <<adc_cs, can_cs, mux_cs, mux_s>>
buses == <<spi0, spi1>>
canv == <<can_mode, can_log, frames>>
envv == <<now, mounted, scene, adc_log>>
hist == <<log_calls, can_calls, log_result, remounts, umount_calls, exit_kind>>
vars == <<pc, exc, prog, pins, buses, canv, envv, hist>>

Scenes == 0..MaxScene

\* ------------------------------------------------- peripherals (hardware)
\* Analog level (12 bit) on ADC input k (1..7) in scene s.
DirectLevel(s, k) == (s * 2049 + k * 531 + 7) % 4096

\* Analog level (12 bit) on multiplexer sub-channel j (0..15) in scene s.
MuxLevel(s, j) == (s * 1025 + j * 273) % 4096

\* Sub-channel selected by the select lines <<s0, s1, s2, s3>>, s0 least significant.
MuxSelected(sel) ==
    (IF sel[1] THEN 1 ELSE 0) + (IF sel[2] THEN 2 ELSE 0)
    + (IF sel[3] THEN 4 ELSE 0) + (IF sel[4] THEN 8 ELSE 0)

\* ADC input addressed by a command byte: bits 6..4.
AdcInputOf(command) == (command \div 16) % 8

\* The two bytes the ADC clocks out for a command byte: the 12-bit level of
\* the addressed input, with don't-care bits in the high nibble of byte 0.
AdcExchange(command, s, mux_enable, sel) ==
    LET input == AdcInputOf(command)
        level == IF input = 0
                 THEN (IF mux_enable THEN MuxLevel(s, MuxSelected(sel)) ELSE 0)
                 ELSE DirectLevel(s, input)
        junk  == ((input + s + 1) % 16) * 16
    IN  <<junk + (level \div 256), level % 256>>

\* MCP2515 mode after a burst of bytes received with chip-select low.
CanModeAfter(mode, bytes) ==
    IF bytes = <<OpReset>> THEN "Resetting"
    ELSE IF Len(bytes) = 3 /\ bytes[1] = OpWrite /\ bytes[2] = RegCanCtrl
    THEN IF bytes[3] = ModeConfig THEN "Configuring"
         ELSE IF bytes[3] = ModeNormal THEN "Operational"
         ELSE mode
    ELSE mode

Ev(op, bytes) == [op |-> op, bytes |-> bytes]

LastWrite(log) ==
    LET ws == SelectSeq(log, LAMBDA e : e.op = "write")
    IN  IF ws = << >> THEN << >> ELSE ws[Len(ws)].bytes

\* spi1.write(bytes): the wire sees the bytes; the controller acts on them
\* only if its chip-select is low.
CanBusWrite(bytes) ==
    /\ can_log' = Append(can_log, Ev("write", bytes))
    /\ can_mode' = IF can_cs THEN can_mode ELSE CanModeAfter(can_mode, bytes)
    /\ frames' = IF ~can_cs /\ bytes = <<OpRts>>
                 THEN Append(frames, LastWrite(can_log))
                 ELSE frames

AdcBusConfig == [baudrate |-> 2000000, phase |-> 0, polarity |-> 0]
CanBusConfig == [baudrate |-> 10000000, phase |-> 0, polarity |-> 0]
SdBusConfig == [baudrate |-> 1320000, phase |-> 0, polarity |-> 0]
NoBusConfig == [baudrate |-> 0, phase |-> 0, polarity |-> 0]

\* ------------------------------------------------------------ __init__
Init ==
    /\ pc = "ctor_mount"
    /\ exc = "none"
    /\ now = 0
    /\ adc_data = << >>
    /\ current_time = 0
    /\ last_log_time = 0
    /\ last_can_time = 0
    /\ phase = "direct"
    /\ i = 0
    /\ result = <<0, 0>>
    /\ all_bytes = << >>
    /\ id = 0
    /\ data = << >>
    /\ caller = "send_adc_data_via_can"
    /\ adc_cs = TRUE
    /\ can_cs = TRUE
    /\ mux_cs = TRUE
    /\ mux_s = <<FALSE, FALSE, FALSE, FALSE>>
    /\ spi0 = [locked |-> FALSE, cfg |-> NoBusConfig]
    /\ spi1 = [locked |-> FALSE, cfg |-> NoBusConfig]
    /\ can_mode = "Uninitialized"
    /\ can_log = << >>
    /\ frames = << >>
    /\ adc_log = << >>
    /\ mounted = FALSE
    /\ scene \in Scenes
    /\ log_calls = 0
    /\ can_calls = 0
    /\ log_result = "none"
    /\ remounts = 0
    /\ umount_calls = 0
    /\ exit_kind = "none"

\* lines 59-66: mount the SD card; a failure is printed and swallowed.
CtorMount ==
    /\ pc = "ctor_mount"
    /\ \E ok \in BOOLEAN :
        /\ mounted' = ok
        /\ spi0' = [spi0 EXCEPT !.cfg = SdBusConfig]
    /\ pc' = "init_reset_select"
    /\ UNCHANGED <<exc, prog, pins, spi1, canv, now, scene, adc_log, hist>>


\* ------------------------------------------------- init_can_controller
\* Mutant: the mode writes exchanged (normal mode requested first).
CfgWritesNormalFirst ==
    << <<OpWrite, RegCanCtrl, ModeNormal>>,
       <<OpWrite, 42, 4>>,
       <<OpWrite, 40, 0>>,
       <<OpWrite, RegCanCtrl, ModeConfig>> >>

\* The four register writes of lines 194, 200, 204, 209, in source order.
CfgWrites ==
    << <<OpWrite, RegCanCtrl, ModeConfig>>,
       <<OpWrite, 42, 4>>,
       <<OpWrite, 40, 0>>,
       <<OpWrite, RegCanCtrl, ModeNormal>> >>

\* line 171: chip-select low, before the bus is locked.
InitResetSelect ==
    /\ pc = "init_reset_select"
    /\ can_cs' = FALSE
    /\ can_log' = <<Ev("select", << >>)>>
    /\ pc' = "init_reset_lock"
    /\ UNCHANGED <<exc, prog, adc_cs, mux_cs, mux_s, buses, can_mode, frames, envv, hist>>

\* lines 173-174: while not try_lock(): pass
InitResetLock ==
    /\ pc = "init_reset_lock"
    /\ ~spi1.locked
    /\ spi1' = [spi1 EXCEPT !.locked = TRUE]
    /\ pc' = "init_reset_write"
    /\ UNCHANGED <<exc, prog, pins, spi0, canv, envv, hist>>

\* lines 177-178: configure, write the RESET opcode.
InitResetWrite ==
    /\ pc = "init_reset_write"
    /\ spi1' = [spi1 EXCEPT !.cfg = CanBusConfig]
    /\ CanBusWrite(<<OpReset>>)
    /\ pc' = "init_reset_unlock"
    /\ UNCHANGED <<exc, prog, pins, spi0, envv, hist>>

\* lines 179-180: finally: unlock; an exception in flight leaves __init__.
InitResetUnlock ==
    /\ pc = "init_reset_unlock"
    /\ spi1' = [spi1 EXCEPT !.locked = FALSE]
    /\ pc' = IF exc = "none" THEN "init_reset_deselect" ELSE "crashed"
    /\ UNCHANGED <<exc, prog, pins, spi0, canv, envv, hist>>

\* line 182
InitResetDeselect ==
    /\ pc = "init_reset_deselect"
    /\ can_cs' = TRUE
    /\ can_log' = Append(can_log, Ev("deselect", << >>))
    /\ pc' = "init_reset_wait"
    /\ UNCHANGED <<exc, prog, adc_cs, mux_cs, mux_s, buses, can_mode, frames, envv, hist>>

\* line 183: time.sleep(0.01)
InitResetWait ==
    /\ pc = "init_reset_wait"
    /\ can_log' = Append(can_log, Ev("sleep", <<ResetWaitUs>>))
    /\ pc' = "init_cfg_lock"
    /\ UNCHANGED <<exc, prog, pins, buses, can_mode, frames, envv, hist>>

\* lines 186-187
InitCfgLock ==
    /\ pc = "init_cfg_lock"
    /\ ~spi1.locked
    /\ spi1' = [spi1 EXCEPT !.locked = TRUE]
    /\ pc' = "init_cfg_configure"
    /\ UNCHANGED <<exc, prog, pins, spi0, canv, envv, hist>>

\* line 190
InitCfgConfigure ==
    /\ pc = "init_cfg_configure"
    /\ spi1' = [spi1 EXCEPT !.cfg = CanBusConfig]
    /\ i' = 1
    /\ pc' = "init_cfg_select"
    /\ UNCHANGED <<exc, adc_data, current_time, last_log_time, last_can_time, phase,
                   result, all_bytes, id, data, caller, pins, spi0, canv, envv, hist>>

\* lines 193, 199, 203, 208
InitCfgSelect ==
    /\ pc = "init_cfg_select"
    /\ can_cs' = FALSE
    /\ can_log' = Append(can_log, Ev("select", << >>))
    /\ pc' = "init_cfg_write"
    /\ UNCHANGED <<exc, prog, adc_cs, mux_cs, mux_s, buses, can_mode, frames, envv, hist>>

\* lines 194, 200, 204, 209
InitCfgWrite ==
    /\ pc = "init_cfg_write"
    /\ CanBusWrite(CfgWrites[i])
    /\ pc' = "init_cfg_deselect"
    /\ UNCHANGED <<exc, prog, pins, buses, envv, hist>>

\* lines 195-196, 201, 205, 210: chip-select high; 1 ms after the first write.
InitCfgDeselect ==
    /\ pc = "init_cfg_deselect"
    /\ can_cs' = TRUE
    /\ can_log' = Append(can_log, Ev("deselect", << >>))
                  \o (IF i = 1 THEN <<Ev("sleep", <<1000>>)>> ELSE << >>)
    /\ IF i < Len(CfgWrites)
       THEN i' = i + 1 /\ pc' = "init_cfg_select"
       ELSE i' = i /\ pc' = "init_cfg_unlock"
    /\ UNCHANGED <<exc, adc_data, current_time, last_log_time, last_can_time, phase,
                   result, all_bytes, id, data, caller, adc_cs, mux_cs, mux_s, buses,
                   can_mode, frames, envv, hist>>

\* lines 211-212: finally: unlock.
InitCfgUnlock ==
    /\ pc = "init_cfg_unlock"
    /\ spi1' = [spi1 EXCEPT !.locked = FALSE]
    /\ pc' = IF exc = "none" THEN "ctor_fields" ELSE "crashed"
    /\ UNCHANGED <<exc, prog, pins, spi0, canv, envv, hist>>

\* lines 72-74
CtorFields ==
    /\ pc = "ctor_fields"
    /\ adc_data' = Zeros(NumChannels)
    /\ last_log_time' = now
    /\ last_can_time' = now
    /\ pc' = "run_top"
    /\ UNCHANGED <<exc, current_time, phase, i, result, all_bytes, id, data, caller,
                   pins, buses, canv, envv, hist>>

Ctor ==
    \/ CtorMount
    \/ InitResetSelect \/ InitResetLock \/ InitResetWrite \/ InitResetUnlock
    \/ InitResetDeselect \/ InitResetWait
    \/ InitCfgLock \/ InitCfgConfigure \/ InitCfgSelect \/ InitCfgWrite
    \/ InitCfgDeselect \/ InitCfgUnlock
    \/ CtorFields

\* ------------------------------------------------- sample_all_channels
\* line 113: range(1, 8)
DirectInputs == 1..7

\* line 114: self.adc_data[i] = ...   (0-based list index)
DirectIndex(k) == k

\* line 120: self.adc_data[i + 7] = ...   (0-based list index)
MuxIndex(j) == j + 7

\* Mutant: the input address shifted by 3 bits.
CommandShift3(channel) == BitOr(128, BitAnd(channel, 7) * 8)

\* line 88: command = 0x80 | ((channel & 0x07) << 4)
Command(channel) == BitOr(128, BitAnd(channel, 7) * 16)

\* line 107: value = ((result[0] & 0x0F) << 8) | result[1]
Decode(r) == BitOr(BitAnd(r[1], 15) * 256, r[2])

\* argument of the read_adc_channel call in progress (lines 114, 120)
Channel == IF phase = "direct" THEN i ELSE 0

\* line 263, and entry to sample_all_channels (line 266); the analog levels
\* move on to the next scene for this cycle.
RunTop ==
    /\ pc = "run_top"
    /\ current_time' = now
    /\ phase' = "direct"
    /\ i' = 1
    /\ scene' = (scene + 1) % (MaxScene + 1)
    /\ pc' = "adc_select"
    /\ UNCHANGED <<exc, adc_data, last_log_time, last_can_time, result, all_bytes,
                   id, data, caller, pins, buses, canv, now, mounted, adc_log, hist>>

\* Mutant: s0 driven with the most significant bit.
MuxSetMsbFirst ==
    /\ pc = "mux_set"
    /\ mux_cs' = FALSE
    /\ mux_s' = << BitAnd(i \div 8, 1) # 0,
                   BitAnd(i \div 4, 1) # 0,
                   BitAnd(i \div 2, 1) # 0,
                   BitAnd(i, 1) # 0 >>
    /\ adc_log' = <<Ev("mux", <<i>>), Ev("sleep", <<5>>), Ev("sleep", <<50>>)>>
    /\ pc' = "adc_select"
    /\ UNCHANGED <<exc, prog, adc_cs, can_cs, buses, canv, now, mounted, scene, hist>>

\* lines 78-83 and line 119: enable the multiplexer, drive s0..s3, settle.
MuxSet ==
    /\ pc = "mux_set"
    /\ mux_cs' = FALSE
    /\ mux_s' = << BitAnd(i, 1) # 0,
                   BitAnd(i \div 2, 1) # 0,
                   BitAnd(i \div 4, 1) # 0,
                   BitAnd(i \div 8, 1) # 0 >>
    /\ adc_log' = <<Ev("mux", <<i>>), Ev("sleep", <<5>>), Ev("sleep", <<50>>)>>
    /\ pc' = "adc_select"
    /\ UNCHANGED <<exc, prog, adc_cs, can_cs, buses, canv, now, mounted, scene, hist>>

\* lines 88-91: chip-select low, before the bus is locked.
AdcSelect ==
    /\ pc = "adc_select"
    /\ adc_cs' = FALSE
    /\ adc_log' = (IF phase = "direct" /\ i = 1 THEN << >> ELSE adc_log)
                  \o <<Ev("select", << >>), Ev("sleep", <<1>>)>>
    /\ pc' = "adc_lock"
    /\ UNCHANGED <<exc, prog, can_cs, mux_cs, mux_s, buses, canv, now, mounted, scene, hist>>

\* lines 94-95
AdcLock ==
    /\ pc = "adc_lock"
    /\ ~spi0.locked
    /\ spi0' = [spi0 EXCEPT !.locked = TRUE]
    /\ pc' = "adc_configure"
    /\ UNCHANGED <<exc, prog, pins, spi1, canv, envv, hist>>

\* Mutant: the bus is configured on first use only.
AdcConfigureOnce ==
    /\ pc = "adc_configure"
    /\ spi0' = IF spi0.cfg = SdBusConfig THEN spi0 ELSE [spi0 EXCEPT !.cfg = AdcBusConfig]
    /\ adc_log' = Append(adc_log, Ev("configure", <<AdcBusConfig.baudrate,
                                     AdcBusConfig.phase, AdcBusConfig.polarity>>))
    /\ pc' = "adc_exchange"
    /\ UNCHANGED <<exc, prog, pins, spi1, canv, now, mounted, scene, hist>>

\* line 98
AdcConfigure ==
    /\ pc = "adc_configure"
    /\ spi0' = [spi0 EXCEPT !.cfg = AdcBusConfig]
    /\ adc_log' = Append(adc_log, Ev("configure", <<AdcBusConfig.baudrate,
                                     AdcBusConfig.phase, AdcBusConfig.polarity>>))
    /\ pc' = "adc_exchange"
    /\ UNCHANGED <<exc, prog, pins, spi1, canv, now, mounted, scene, hist>>

\* lines 99-100: write_readinto(bytes([command, 0x00]), result)
AdcTransfer ==
    /\ pc = "adc_exchange"
    /\ result' = IF adc_cs THEN <<0, 0>>
                 ELSE AdcExchange(Command(Channel), scene, ~mux_cs, mux_s)
    /\ adc_log' = Append(adc_log, Ev("exchange", <<Command(Channel), 0>>))
    /\ pc' = "adc_unlock"
    /\ UNCHANGED <<exc, adc_data, current_time, last_log_time, last_can_time, phase, i,
                   all_bytes, id, data, caller, pins, buses, canv, now, mounted, scene,
                   hist>>

\* lines 101-102: finally: unlock; an exception in flight leaves the loop.
AdcUnlock ==
    /\ pc = "adc_unlock"
    /\ spi0' = [spi0 EXCEPT !.locked = FALSE]
    /\ pc' = IF exc = "none" THEN "adc_deselect" ELSE "finally"
    /\ UNCHANGED <<exc, prog, pins, spi1, canv, envv, hist>>

\* lines 104-108, the assignment of line 114 or 120, and the loop headers
\* of lines 113 and 117.
AdcDeselect ==
    /\ pc = "adc_deselect"
    /\ adc_cs' = TRUE
    /\ adc_log' = Append(adc_log, Ev("deselect", << >>))
    /\ LET idx == IF phase = "direct" THEN DirectIndex(i) ELSE MuxIndex(i)
       IN  adc_data' = [adc_data EXCEPT ![idx + 1] = Decode(result)]
    /\ IF phase = "direct"
       THEN IF i + 1 \in DirectInputs
            THEN i' = i + 1 /\ phase' = phase /\ pc' = "adc_select"
            ELSE i' = 0 /\ phase' = "mux" /\ pc' = "mux_set"
       ELSE IF i + 1 < 16
            THEN i' = i + 1 /\ phase' = phase /\ pc' = "mux_set"
            ELSE i' = i /\ phase' = phase /\ pc' = "log_check"
    /\ UNCHANGED <<exc, current_time, last_log_time, last_can_time, result, all_bytes,
                   id, data, caller, can_cs, mux_cs, mux_s, buses, canv, now, mounted,
                   scene, hist>>

Sample ==
    \/ MuxSet \/ AdcSelect \/ AdcLock \/ AdcConfigure \/ AdcTransfer
    \/ AdcUnlock \/ AdcDeselect

\* ------------------------------------------------------ log_data_to_sd
\* Mutant: storage due a tick early.
LogDueEarly == current_time - last_log_time >= LogPeriod - 1

\* line 269: current_time - self.last_log_time >= 1
LogDue == current_time - last_log_time >= LogPeriod

\* lines 269-270
LogCheck ==
    /\ pc = "log_check"
    /\ IF LogDue
       THEN /\ pc' = "log_listdir"
            /\ log_calls' = log_calls + 1
            /\ remounts' = 0
            /\ log_result' = "none"
       ELSE /\ pc' = "can_check"
            /\ UNCHANGED <<log_calls, remounts, log_result>>
    /\ UNCHANGED <<exc, prog, pins, buses, canv, envv, can_calls, umount_calls, exit_kind>>

\* lines 126-129: os.listdir("/sd") succeeds only on a mounted volume, and
\* may fail on one (the card went away).
LogListdir ==
    /\ pc = "log_listdir"
    /\ \E ok \in (IF mounted THEN BOOLEAN ELSE {FALSE}) :
        /\ mounted' = ok
        /\ pc' = IF ok THEN "log_write" ELSE "log_remount"
    /\ spi0' = [spi0 EXCEPT !.cfg = SdBusConfig]
    /\ UNCHANGED <<exc, prog, pins, spi1, canv, now, scene, adc_log, hist>>

\* Mutant: a failed remount is tried once more.
LogRemountRetry ==
    /\ pc = "log_remount"
    /\ remounts' = remounts + 1
    /\ \E ok \in BOOLEAN :
        /\ mounted' = ok
        /\ pc' = IF ok THEN "log_write"
                 ELSE IF remounts = 0 THEN "log_remount" ELSE "log_return"
        /\ log_result' = IF ok THEN log_result ELSE "skipped"
    /\ spi0' = [spi0 EXCEPT !.cfg = SdBusConfig]
    /\ UNCHANGED <<exc, prog, pins, spi1, canv, now, scene, adc_log, log_calls,
                   can_calls, umount_calls, exit_kind>>

\* lines 130-134: one storage.mount; on failure print and return.
LogRemount ==
    /\ pc = "log_remount"
    /\ remounts' = remounts + 1
    /\ \E ok \in BOOLEAN :
        /\ mounted' = ok
        /\ pc' = IF ok THEN "log_write" ELSE "log_return"
        /\ log_result' = IF ok THEN log_result ELSE "skipped"
    /\ spi0' = [spi0 EXCEPT !.cfg = SdBusConfig]
    /\ UNCHANGED <<exc, prog, pins, spi1, canv, now, scene, adc_log, log_calls,
                   can_calls, umount_calls, exit_kind>>

\* lines 137-166: header if the file is absent, then the row; any Exception
\* is printed and swallowed.
LogWrite ==
    /\ pc = "log_write"
    /\ \E ok \in BOOLEAN : log_result' = IF ok THEN "written" ELSE "error"
    /\ spi0' = [spi0 EXCEPT !.cfg = SdBusConfig]
    /\ pc' = "log_return"
    /\ UNCHANGED <<exc, prog, pins, spi1, canv, envv, log_calls, can_calls, remounts,
                   umount_calls, exit_kind>>

\* Mutant: the time stamp moves on only after a written record.
LogReturnIfWritten ==
    /\ pc = "log_return"
    /\ last_log_time' = IF log_result = "written" THEN current_time ELSE last_log_time
    /\ pc' = "can_check"
    /\ UNCHANGED <<exc, adc_data, current_time, last_can_time, phase, i, result,
                   all_bytes, id, data, caller, pins, buses, canv, envv, hist>>

\* line 271
LogReturn ==
    /\ pc = "log_return"
    /\ last_log_time' = current_time
    /\ pc' = "can_check"
    /\ UNCHANGED <<exc, adc_data, current_time, last_can_time, phase, i, result,
                   all_bytes, id, data, caller, pins, buses, canv, envv, hist>>

Log == LogCheck \/ LogListdir \/ LogRemount \/ LogWrite \/ LogReturn

\* ---------------------------------------------------- send_can_message
\* Mutant: the identifier shifted by one bit too many.
HeaderShift4(ident, payload) ==
    <<ident \div 16, (ident % 8) * 32, 0, 0, Len(payload)>>

\* line 227: bytearray([id >> 3, (id & 0x07) << 5, 0, 0, len(data)])
Header(ident, payload) ==
    <<ident \div 8, (ident % 8) * 32, 0, 0, Len(payload)>>

\* bytearray(...) raises ValueError unless every element is in range(256).
AllBytes(bs) == \A k \in 1..Len(bs) : IsByte(bs[k])

\* where control goes when send_can_message returns or raises
AfterSend ==
    IF caller = "harness" THEN "harness_done"
    ELSE IF exc = "none" THEN "tx_sleep"
    ELSE "finally"

\* Mutant: send_can_message takes the sampling bus.
SendLockSpi0 ==
    /\ pc = "send_lock"
    /\ ~spi0.locked
    /\ spi0' = [spi0 EXCEPT !.locked = TRUE]
    /\ can_log' = << >>
    /\ pc' = "send_load_select"
    /\ UNCHANGED <<exc, prog, pins, spi1, can_mode, frames, envv, hist>>

\* lines 216-217
SendLock ==
    /\ pc = "send_lock"
    /\ ~spi1.locked
    /\ spi1' = [spi1 EXCEPT !.locked = TRUE]
    /\ can_log' = << >>
    /\ pc' = "send_load_select"
    /\ UNCHANGED <<exc, prog, pins, spi0, can_mode, frames, envv, hist>>

\* lines 221, 226, 233
SendSelect(at, next) ==
    /\ pc = at
    /\ can_cs' = FALSE
    /\ can_log' = Append(can_log, Ev("select", << >>))
    /\ pc' = next
    /\ UNCHANGED <<exc, prog, adc_cs, mux_cs, mux_s, buses, can_mode, frames, envv, hist>>

\* lines 223, 230, 235
SendDeselect(at, next) ==
    /\ pc = at
    /\ can_cs' = TRUE
    /\ can_log' = Append(can_log, Ev("deselect", << >>))
    /\ pc' = next
    /\ UNCHANGED <<exc, prog, adc_cs, mux_cs, mux_s, buses, can_mode, frames, envv, hist>>

SendLoadSelect == SendSelect("send_load_select", "send_load_write")

\* line 222: Load TX buffer 0 command, standard ID
SendLoadWrite ==
    /\ pc = "send_load_write"
    /\ CanBusWrite(<<OpLoadTx, 8>>)
    /\ pc' = "send_load_deselect"
    /\ UNCHANGED <<exc, prog, pins, buses, envv, hist>>

SendLoadDeselect == SendDeselect("send_load_deselect", "send_hdr_select")

SendHdrSelect == SendSelect("send_hdr_select", "send_hdr_write")

\* lines 227-229: build the buffer (ValueError on a non-byte), write it.
SendHdrWrite ==
    /\ pc = "send_hdr_write"
    /\ LET buffer == Header(id, data) \o data
       IN  IF AllBytes(buffer)
           THEN /\ CanBusWrite(buffer)
                /\ pc' = "send_hdr_deselect"
                /\ exc' = exc
           ELSE /\ exc' = "Exception"
                /\ pc' = "send_unlock"
                /\ UNCHANGED canv
    /\ UNCHANGED <<prog, pins, buses, envv, hist>>

SendHdrDeselect == SendDeselect("send_hdr_deselect", "send_rts_select")

SendRtsSelect == SendSelect("send_rts_select", "send_rts_write")

\* line 234: RTS TX buffer 0
SendRtsWrite ==
    /\ pc = "send_rts_write"
    /\ CanBusWrite(<<OpRts>>)
    /\ pc' = "send_rts_deselect"
    /\ UNCHANGED <<exc, prog, pins, buses, envv, hist>>

SendRtsDeselect == SendDeselect("send_rts_deselect", "send_unlock")

\* lines 236-237: finally: unlock, then return or keep raising.
SendUnlock ==
    /\ pc = "send_unlock"
    /\ spi1' = [spi1 EXCEPT !.locked = FALSE]
    /\ pc' = AfterSend
    /\ UNCHANGED <<exc, prog, pins, spi0, canv, envv, hist>>

Send ==
    \/ SendLock
    \/ SendLoadSelect \/ SendLoadWrite \/ SendLoadDeselect
    \/ SendHdrSelect \/ SendHdrWrite \/ SendHdrDeselect
    \/ SendRtsSelect \/ SendRtsWrite \/ SendRtsDeselect
    \/ SendUnlock

\* ------------------------------------------------ send_adc_data_via_can
\* Mutant: little-endian packing.
PackHLittle(value) == <<value % 256, value \div 256>>

\* line 247: struct.pack(">H", value)
PackH(value) == <<value \div 256, value % 256>>

\* lines 245-247
PackAll(values) == Flatten([k \in 1..Len(values) |-> PackH(values[k])])

\* line 252: all_bytes[i:i+min(chunk_size, len(all_bytes)-i)]
ChunkOf(bytes, off) ==
    LET rest == Len(bytes) - off
    IN  Slice(bytes, off, off + (IF ChunkSize < rest THEN ChunkSize ELSE rest))

\* Mutant: the byte offset used as the chunk index.
ChunkIdByOffset(off) == BaseId + off

\* line 254: 0x100 + (i // chunk_size)
ChunkId(off) == BaseId + (off \div ChunkSize)

\* Mutant: transmission due a tick early.
CanDueEarly == current_time - last_can_time >= CanPeriod - 1

\* line 274: current_time - self.last_can_time >= 0.5
CanDue == current_time - last_can_time >= CanPeriod

\* lines 274-275
CanCheck ==
    /\ pc = "can_check"
    /\ IF CanDue
       THEN pc' = "tx_pack" /\ can_calls' = can_calls + 1
       ELSE pc' = "loop_sleep" /\ can_calls' = can_calls
    /\ UNCHANGED <<exc, prog, pins, buses, canv, envv, log_calls, log_result, remounts,
                   umount_calls, exit_kind>>

\* Mutant: packing consumes the readings.
TxPackClearing ==
    /\ pc = "tx_pack"
    /\ all_bytes' = PackAll(adc_data)
    /\ adc_data' = Zeros(NumChannels)
    /\ i' = 0
    /\ frames' = << >>
    /\ pc' = IF Len(PackAll(adc_data)) > 0 THEN "tx_chunk" ELSE "tx_return"
    /\ UNCHANGED <<exc, current_time, last_log_time, last_can_time, phase,
                   result, id, data, caller, pins, buses, can_mode, can_log, envv, hist>>

\* lines 245-251: pack the readings, enter the chunk loop.
TxPack ==
    /\ pc = "tx_pack"
    /\ all_bytes' = PackAll(adc_data)
    /\ i' = 0
    /\ frames' = << >>
    /\ pc' = IF Len(PackAll(adc_data)) > 0 THEN "tx_chunk" ELSE "tx_return"
    /\ UNCHANGED <<exc, adc_data, current_time, last_log_time, last_can_time, phase,
                   result, id, data, caller, pins, buses, can_mode, can_log, envv, hist>>

\* lines 252-254: cut the chunk, call send_can_message.
TxChunk ==
    /\ pc = "tx_chunk"
    /\ data' = ChunkOf(all_bytes, i)
    /\ id' = ChunkId(i)
    /\ pc' = "send_lock"
    /\ UNCHANGED <<exc, adc_data, current_time, last_log_time, last_can_time, phase, i,
                   result, all_bytes, caller, pins, buses, canv, envv, hist>>

\* line 255 and the loop header of line 251
TxSleep ==
    /\ pc = "tx_sleep"
    /\ i' = i + ChunkSize
    /\ pc' = IF i + ChunkSize < Len(all_bytes) THEN "tx_chunk" ELSE "tx_return"
    /\ UNCHANGED <<exc, adc_data, current_time, last_log_time, last_can_time, phase,
                   result, all_bytes, id, data, caller, pins, buses, canv, envv, hist>>

\* line 276
TxReturn ==
    /\ pc = "tx_return"
    /\ last_can_time' = current_time
    /\ pc' = "loop_sleep"
    /\ UNCHANGED <<exc, adc_data, current_time, last_log_time, phase, i, result,
                   all_bytes, id, data, caller, pins, buses, canv, envv, hist>>

Transmit == CanCheck \/ TxPack \/ TxChunk \/ Send \/ TxSleep \/ TxReturn

\* ------------------------------------------------------------------ run
\* line 279: time.sleep(0.1); together with the work of the iteration it
\* takes SleepTicks..MaxSleep ticks.  Clock readings up to limit are explored.
SleepUpTo(limit) ==
    /\ pc = "loop_sleep"
    /\ \E d \in SleepTicks..MaxSleep :
        /\ now + d <= limit
        /\ now' = now + d
    /\ pc' = "run_top"
    /\ UNCHANGED <<exc, prog, pins, buses, canv, mounted, scene, adc_log, hist>>

LoopSleep == SleepUpTo(MaxTime)

LongSleep == SleepUpTo(MaxRunTime)

AdcTryPcs == {"adc_configure", "adc_exchange"}

SendTryPcs ==
    {"send_load_select", "send_load_write", "send_load_deselect",
     "send_hdr_select", "send_hdr_write", "send_hdr_deselect",
     "send_rts_select", "send_rts_write", "send_rts_deselect"}

LoopPcs ==
    {"run_top", "mux_set", "adc_select", "adc_lock", "adc_unlock", "adc_deselect",
     "log_check", "log_listdir", "log_remount", "log_write", "log_return",
     "can_check", "tx_pack", "tx_chunk", "send_lock", "send_unlock", "tx_sleep",
     "tx_return", "loop_sleep"} \cup AdcTryPcs \cup SendTryPcs

\* Mutant: outside the inner try blocks the exception leaves run at once.
HandlerSkipsFinally(at) ==
    IF at \in AdcTryPcs \cup {"adc_unlock"} THEN "adc_unlock"
    ELSE IF at \in SendTryPcs \cup {"send_unlock"} THEN "send_unlock"
    ELSE "done"

\* where an exception raised at pc is first handled: the finally clause of
\* the try block around pc (lines 101, 236), else the one of run (line 283).
HandlerOf(at) ==
    IF at \in AdcTryPcs \cup {"adc_unlock"} THEN "adc_unlock"
    ELSE IF at \in SendTryPcs \cup {"send_unlock"} THEN "send_unlock"
    ELSE "finally"

\* The stop signal: KeyboardInterrupt is raised between any two statements
\* of the loop (lines 262-279); it is no Exception, so line 165 lets it pass.
KeyboardInterrupt ==
    /\ pc \in LoopPcs
    /\ exc = "none"
    /\ exc' = "KeyboardInterrupt"
    /\ pc' = HandlerOf(pc)
    /\ UNCHANGED <<prog, pins, buses, canv, envv, hist>>

\* An SPI transfer raises instead of completing (lines 100, 178, 194-209,
\* 222, 229, 234).
SpiError ==
    /\ exc = "none"
    /\ \/ pc = "adc_exchange" /\ pc' = "adc_unlock"
       \/ pc \in {"send_load_write", "send_hdr_write", "send_rts_write"}
          /\ pc' = "send_unlock"
       \/ pc = "init_reset_write" /\ pc' = "init_reset_unlock"
       \/ pc = "init_cfg_write" /\ pc' = "init_cfg_unlock"
    /\ exc' = "Exception"
    /\ UNCHANGED <<prog, pins, buses, canv, envv, hist>>

\* lines 281-288: KeyboardInterrupt is caught and reported; in every case
\* storage.umount is tried and its failure swallowed; then run returns, or
\* the exception goes on to the caller.
Finally ==
    /\ pc = "finally"
    /\ umount_calls' = umount_calls + 1
    /\ \E ok \in (IF mounted THEN BOOLEAN ELSE {FALSE}) :
        mounted' = (mounted /\ ~ok)
    /\ exit_kind' = IF exc = "KeyboardInterrupt" THEN "returned" ELSE "raised"
    /\ exc' = IF exc = "KeyboardInterrupt" THEN "none" ELSE exc
    /\ pc' = "done"
    /\ UNCHANGED <<prog, pins, buses, canv, now, scene, adc_log, log_calls, can_calls,
                   log_result, remounts>>

Next ==
    \/ Ctor
    \/ RunTop \/ Sample \/ Log \/ Transmit \/ LoopSleep
    \/ KeyboardInterrupt \/ SpiError \/ Finally

\* The whole program, with the stop signal and failing SPI transfers.
Spec == Init /\ [][Next]_vars

\* ------------------------------------------------- undisturbed runs
NextSched ==
    \/ Ctor
    \/ RunTop \/ Sample \/ Log \/ Transmit \/ LongSleep

\* The program on a working bus and with no stop signal, over a longer time.
SpecSched == Init /\ [][NextSched]_vars

\* --------------------------------------- send_can_message on its own
HarnessIds == {-1, 0, BaseId, BaseId + 5, 2047, 2048, 2049}

HarnessPayloads ==
    { [k \in 1..n |-> (seed + 37 * k) % 256] : n \in 0..MaxPayload, seed \in {0, 200} }

\* An initialised driver (the state __init__ leaves) about to execute
\* send_can_message(id, data) for some id and data.
InitSend ==
    /\ pc = "send_lock"
    /\ exc = "none"
    /\ now = 0
    /\ adc_data = Zeros(NumChannels)
    /\ current_time = 0
    /\ last_log_time = 0
    /\ last_can_time = 0
    /\ phase = "direct"
    /\ i = 0
    /\ result = <<0, 0>>
    /\ all_bytes = << >>
    /\ id \in HarnessIds
    /\ data \in HarnessPayloads
    /\ caller = "harness"
    /\ adc_cs = TRUE
    /\ can_cs = TRUE
    /\ mux_cs = TRUE
    /\ mux_s = <<FALSE, FALSE, FALSE, FALSE>>
    /\ spi0 = [locked |-> FALSE, cfg |-> SdBusConfig]
    /\ spi1 = [locked |-> FALSE, cfg |-> CanBusConfig]
    /\ can_mode = "Operational"
    /\ can_log = << >>
    /\ frames = << >>
    /\ adc_log = << >>
    /\ mounted \in BOOLEAN
    /\ scene = 0
    /\ log_calls = 0
    /\ can_calls = 0
    /\ log_result = "none"
    /\ remounts = 0
    /\ umount_calls = 0
    /\ exit_kind = "none"

SpecSend == InitSend /\ [][Send]_vars

\* ------------------------------------ send_adc_data_via_can on its own
TestVectors ==
    { [k \in 1..NumChannels |-> (base + step * k) % 4096] :
        base \in {0, 255, 4000, 4095}, step \in {0, 1, 255, 273, 4095} }

\* An initialised driver holding some reading vector, at line 274 of an
\* iteration in which the transmission is due.
InitTx ==
    /\ pc = "can_check"
    /\ exc = "none"
    /\ now = CanPeriod
    /\ adc_data \in TestVectors
    /\ current_time = CanPeriod
    /\ last_log_time = 0
    /\ last_can_time = 0
    /\ phase = "mux"
    /\ i = 15
    /\ result = <<0, 0>>
    /\ all_bytes = << >>
    /\ id = 0
    /\ data = << >>
    /\ caller = "send_adc_data_via_can"
    /\ adc_cs = TRUE
    /\ can_cs = TRUE
    /\ mux_cs = FALSE
    /\ mux_s = <<TRUE, TRUE, TRUE, TRUE>>
    /\ spi0 = [locked |-> FALSE, cfg |-> AdcBusConfig]
    /\ spi1 = [locked |-> FALSE, cfg |-> CanBusConfig]
    /\ can_mode = "Operational"
    /\ can_log = << >>
    /\ frames = << >>
    /\ adc_log = << >>
    /\ mounted \in BOOLEAN
    /\ scene = 0
    /\ log_calls = 0
    /\ can_calls = 0
    /\ log_result = "none"
    /\ remounts = 0
    /\ umount_calls = 0
    /\ exit_kind = "none"

SpecTx == InitTx /\ [][Transmit]_vars

\* =================================================================
\* Properties
\* =================================================================

\* statement groups of __init__ and init_can_controller
CtorPcs ==
    {"ctor_mount", "init_reset_select", "init_reset_lock", "init_reset_write",
     "init_reset_unlock", "init_reset_deselect", "init_reset_wait", "init_cfg_lock",
     "init_cfg_configure", "init_cfg_select", "init_cfg_write", "init_cfg_deselect",
     "init_cfg_unlock", "ctor_fields"}

SendPcs == {"send_lock", "send_unlock"} \cup SendTryPcs

\* C1: a completed sampling cycle leaves 23 readings of that cycle in logical
\* channel order: entry k (k in 0..6) is the level of ADC input k+1, entry
\* 7+j (j in 0..15) is the level of multiplexer sub-channel j read through
\* ADC input 0.
C1_SamplingLayout ==
    pc = "log_check" =>
        /\ Len(adc_data) = NumChannels
        /\ \A k \in 0..6 : adc_data[k + 1] = DirectLevel(scene, k + 1)
        /\ \A j \in 0..15 : adc_data[7 + j + 1] = MuxLevel(scene, j)

\* What the code leaves instead: entry 0 is never written, entries 1..6 hold
\* ADC inputs 1..6, and the reading of ADC input 7 is overwritten by
\* multiplexer sub-channel 0.
C1_ActualLayout ==
    pc = "log_check" =>
        /\ Len(adc_data) = NumChannels
        /\ adc_data[1] = 0
        /\ \A k \in 1..6 : adc_data[k + 1] = DirectLevel(scene, k)
        /\ \A j \in 0..15 : adc_data[7 + j + 1] = MuxLevel(scene, j)

\* a completed cycle whose entry 0 was never written and whose entry 7 holds
\* multiplexer sub-channel 0 instead of ADC input 7
C1_Witness ==
    /\ pc = "log_check"
    /\ adc_data[1] = 0
    /\ DirectLevel(scene, 1) # 0
    /\ adc_data[8] = MuxLevel(scene, 0)
    /\ adc_data[8] # DirectLevel(scene, 7)

\* C2: the controller goes Uninitialized -> Resetting -> Configuring ->
\* Operational, one step at a time; the reset burst is the first write, a
\* wait of at least 10 ms separates it from every register write, the
\* normal-mode write is the last write of bring-up, and send_can_message runs
\* only on an Operational controller, whether or not the volume was mounted.
ModeChain ==
    { <<"Uninitialized", "Resetting">>, <<"Resetting", "Configuring">>,
      <<"Configuring", "Operational">> }

IsWrite(e) == e.op = "write"

IsRegisterWrite(e) == IsWrite(e) /\ Len(e.bytes) >= 1 /\ e.bytes[1] = OpWrite

ResetThenWaitBefore(log, n) ==
    \E r \in 1..(n - 1) : \E w \in (r + 1)..(n - 1) :
        /\ log[r] = Ev("write", <<OpReset>>)
        /\ log[w].op = "sleep"
        /\ log[w].bytes[1] >= 10000
        /\ \A m \in 1..(r - 1) : ~IsWrite(log[m])

C2_StateInv ==
    /\ pc = "ctor_mount" => can_mode = "Uninitialized"
    /\ \A n \in 1..Len(can_log) :
          IsRegisterWrite(can_log[n]) => ResetThenWaitBefore(can_log, n)
    /\ pc = "ctor_fields" =>
          /\ can_mode = "Operational"
          /\ LastWrite(can_log) = <<OpWrite, RegCanCtrl, ModeNormal>>
    /\ pc \in SendPcs => can_mode = "Operational"
    /\ pc \in LoopPcs => can_mode = "Operational"

C2_DriverStateMachine ==
    /\ []C2_StateInv
    /\ [][can_mode' # can_mode => <<can_mode, can_mode'>> \in ModeChain]_vars

\* a frame has gone out although the mount of line 63 failed
C2_Witness ==
    /\ ~mounted
    /\ log_calls = 0
    /\ can_mode = "Operational"
    /\ Len(frames) = 6
    /\ pc = "tx_return"

\* C3: bring-up writes exactly 5 registers: the control register (to
\* configuration mode), three distinct bit-timing registers, the control
\* register (to normal mode), each register write inside its own
\* chip-select burst or as part of one sequential multi-byte write.
\* The registers a write burst [OpWrite, address, v0, v1, ...] sets:
\* address <- v0, address+1 <- v1, ...
RegisterWrites(bytes) ==
    [k \in 1..(Len(bytes) - 2) |-> <<bytes[2] + k - 1, bytes[2 + k]>>]

AllRegisterWrites(log) ==
    Flatten([n \in 1..Len(log) |->
                IF IsRegisterWrite(log[n]) THEN RegisterWrites(log[n].bytes)
                ELSE << >>])

C3_FiveRegisterWrites ==
    pc = "ctor_fields" =>
        LET regs == AllRegisterWrites(can_log)
        IN  /\ Len(regs) = 5
            /\ regs[1] = <<RegCanCtrl, ModeConfig>>
            /\ regs[5] = <<RegCanCtrl, ModeNormal>>
            /\ Cardinality({regs[2][1], regs[3][1], regs[4][1]}) = 3
            /\ RegCanCtrl \notin {regs[2][1], regs[3][1], regs[4][1]}

\* What the code does: 4 register writes, two bit-timing registers.
C3_ActualWrites ==
    pc = "ctor_fields" =>
        AllRegisterWrites(can_log) =
            << <<RegCanCtrl, ModeConfig>>, <<42, 4>>, <<40, 0>>,
               <<RegCanCtrl, ModeNormal>> >>

\* bring-up finished after 4 register writes
C3_Witness ==
    /\ pc = "ctor_fields"
    /\ can_mode = "Operational"
    /\ Len(AllRegisterWrites(can_log)) = 4

\* C4: send_can_message rejects a payload longer than 8 bytes and an
\* identifier outside 0..0x7FF: the call ends with an error and nothing was
\* written to the CAN SPI bus.
ValidFrame == id \in 0..2047 /\ Len(data) <= 8

C4_RejectsInvalid ==
    (caller = "harness" /\ ~ValidFrame) =>
        /\ \A n \in 1..Len(can_log) : ~IsWrite(can_log[n])
        /\ pc = "harness_done" => exc # "none"

\* What the code does with a 9-byte payload: all three bursts, a frame with
\* data-length code 9, a normal return.
C4_OversizeSent ==
    /\ pc = "harness_done"
    /\ id \in 0..2047
    /\ Len(data) = 9
    /\ exc = "none"
    /\ Len(frames) = 1
    /\ frames[1][5] = 9

\* C5: a call of send_can_message with a valid identifier and payload puts
\* exactly three chip-select bursts on the CAN bus, in this order: load TX
\* buffer with the standard-frame selector; identifier high byte, identifier
\* low byte, two zero bytes, the payload length, the payload; request to
\* send. Chip-select is low exactly inside a burst, and the request to send
\* is written only after the second burst is complete.
FrameId(f) == f[1] * 8 + (f[2] \div 32)

FramePayload(f) == SubSeq(f, 6, Len(f))

IsFrameOf(bytes, ident, payload) ==
    /\ Len(bytes) = 5 + Len(payload)
    /\ AllBytes(bytes)
    /\ FrameId(bytes) = ident
    /\ bytes[2] % 32 = 0
    /\ bytes[3] = 0
    /\ bytes[4] = 0
    /\ bytes[5] = Len(payload)
    /\ FramePayload(bytes) = payload

BurstEvent(n, e) ==
    IF n % 3 = 1 THEN e = Ev("select", << >>)
    ELSE IF n % 3 = 0 THEN e = Ev("deselect", << >>)
    ELSE /\ e.op = "write"
         /\ n = 2 => e.bytes = <<64, 8>>
         /\ n = 5 => IsFrameOf(e.bytes, id, data)
         /\ n = 8 => e.bytes = <<129>>

C5_ThreeBursts ==
    (caller = "harness" /\ ValidFrame) =>
        /\ Len(can_log) <= 9
        /\ \A n \in 1..Len(can_log) : BurstEvent(n, can_log[n])
        /\ can_cs = (Len(can_log) % 3 = 0)
        /\ pc = "harness_done" =>
              /\ Len(can_log) = 9
              /\ exc = "none"
              /\ ~spi1.locked
              /\ frames = <<can_log[5].bytes>>

C5_Witness ==
    /\ pc = "harness_done"
    /\ id = 2047
    /\ Len(data) = 8
    /\ Len(can_log) = 9
    /\ Len(frames) = 1

\* C6: one transmission emits exactly 6 frames, in ascending chunk order,
\* with identifiers 0x100..0x105 each used once; the first 5 carry 8
\* payload bytes and the last carries 6.
C6_SixFrames ==
    /\ Len(frames) <= 6
    /\ \A n \in 1..Len(frames) :
          /\ FrameId(frames[n]) = 256 + (n - 1)
          /\ frames[n][5] = Len(FramePayload(frames[n]))
          /\ Len(FramePayload(frames[n])) = IF n < 6 THEN 8 ELSE 6
    /\ pc = "tx_return" => Len(frames) = 6
    /\ pc = "tx_sleep" => Len(frames) = (i \div 8) + 1

C6_Witness ==
    /\ pc = "tx_return"
    /\ Len(frames) = 6
    /\ mounted
    /\ log_calls = 1
    /\ can_calls = 2

\* C7: for every reading vector of 23 values in 0..4095, the payloads of
\* the frames of one transmission, concatenated in identifier order and
\* decoded pairwise as big-endian 16-bit values, are the 23 readings in
\* order.
InIdOrder(fs) ==
    [k \in 1..Len(fs) |->
        fs[CHOOSE n \in 1..Len(fs) : FrameId(fs[n]) = 256 + (k - 1)]]

BigEndian(bytes) ==
    [k \in 1..(Len(bytes) \div 2) |-> bytes[2 * k - 1] * 256 + bytes[2 * k]]

Received(fs) ==
    LET ordered == InIdOrder(fs)
    IN  BigEndian(Flatten([k \in 1..Len(ordered) |-> FramePayload(ordered[k])]))

C7_RoundTrip ==
    pc = "tx_return" =>
        /\ Len(adc_data) = 23
        /\ \A k \in 1..23 : adc_data[k] \in 0..4095
        /\ Received(frames) = adc_data

C7_Witness ==
    /\ pc = "tx_return"
    /\ Len(frames) = 6
    /\ adc_data[1] = 4095
    /\ adc_data[2] = 4094

\* C8: at every elapsed time since start (the clock starts at 0, in ticks of
\* 0.1 s), the number of storage invocations is floor(elapsed / 1.0 s)
\* within +-1 and the number of transmissions is floor(elapsed / 0.5 s)
\* within +-1.
Within1(count, expected) == count - expected \in {-1, 0, 1}

StoragePcs == {"log_listdir", "log_remount", "log_write", "log_return"}

TransmitPcs == {"tx_pack", "tx_chunk", "tx_sleep", "tx_return"} \cup SendPcs

SamplePcs == {"mux_set", "adc_select", "adc_lock", "adc_unlock", "adc_deselect"} \cup AdcTryPcs

Stage(at) ==
    IF at = "run_top" THEN 0
    ELSE IF at \in SamplePcs THEN 1
    ELSE IF at = "log_check" THEN 2
    ELSE IF at \in StoragePcs THEN 3
    ELSE IF at = "can_check" THEN 4
    ELSE IF at \in TransmitPcs THEN 5
    ELSE 6

C9_StateInv ==
    /\ pc \in LoopPcs => last_log_time <= current_time /\ last_can_time <= current_time
    /\ pc \in StoragePcs => current_time - last_log_time >= 10
    /\ pc \in TransmitPcs => current_time - last_can_time >= 5
    /\ pc \in LoopPcs => log_calls * 10 <= current_time /\ can_calls * 5 <= current_time

C9_Step ==
    /\ pc = "run_top" => pc' = "adc_select" /\ current_time' = now
    /\ (pc # "log_check" /\ pc' = "log_check") =>
          pc = "adc_deselect" /\ phase = "mux" /\ i = 15
    /\ pc = "log_check" =>
          IF current_time - last_log_time >= 10
          THEN pc' = "log_listdir" /\ log_calls' = log_calls + 1
          ELSE pc' = "can_check" /\ log_calls' = log_calls
    /\ pc = "can_check" =>
          IF current_time - last_can_time >= 5
          THEN pc' = "tx_pack" /\ can_calls' = can_calls + 1
          ELSE pc' = "loop_sleep" /\ can_calls' = can_calls
    /\ log_calls' # log_calls => pc = "log_check"
    /\ can_calls' # can_calls => pc = "can_check"
    /\ pc = "log_return" => pc' = "can_check" /\ last_log_time' = current_time
    /\ pc = "tx_return" => pc' = "loop_sleep" /\ last_can_time' = current_time
    /\ (pc \in StoragePcs /\ pc # "log_return") => pc' \in StoragePcs
    /\ (pc \in TransmitPcs /\ pc # "tx_return") => pc' \in TransmitPcs
    /\ (pc \in LoopPcs /\ last_log_time' # last_log_time) => pc = "log_return"
    /\ (pc \in LoopPcs /\ last_can_time' # last_can_time) => pc = "tx_return"
    /\ last_log_time' >= last_log_time
    /\ last_can_time' >= last_can_time
    /\ (pc \in LoopPcs /\ pc # "run_top") => current_time' = current_time
    /\ pc \in LoopPcs =>
          \/ Stage(pc') >= Stage(pc)
          \/ pc = "loop_sleep" /\ pc' = "run_top"

C9_SchedulerIteration == []C9_StateInv /\ [][C9_Step]_vars

\* storage and transmission both fire in one iteration; the storage call
\* has returned and the transmission starts
C9_Witness ==
    /\ pc = "tx_pack"
    /\ log_calls = 2
    /\ last_log_time = current_time
    /\ current_time - last_can_time >= 5

\* C10: on every exit of run - the stop signal, or an error raised in an
\* iteration - storage.umount is attempted exactly once before run returns
\* or lets the error go on, and a failing umount does not keep run from
\* exiting.
C10_UnmountOnExit ==
    /\ pc \in LoopPcs \cup {"finally"} => umount_calls = 0
    /\ pc = "finally" => exc # "none" /\ ENABLED Finally
    /\ pc = "done" =>
          /\ umount_calls = 1
          /\ exit_kind \in {"returned", "raised"}
          /\ exit_kind = "raised" <=> exc # "none"

\* run has let an SPI error go on to its caller after an umount that failed
C10_Witness ==
    /\ pc = "done"
    /\ exit_kind = "raised"
    /\ umount_calls = 1
    /\ mounted

\* C11: in one call of log_data_to_sd a failed directory listing leads to
\* exactly one storage.mount; if it succeeds the record is written (line
\* 154 is reached), if it fails the write is skipped; no error reaches run
\* and the iteration goes on with the transmission check.
C11_StateInv ==
    /\ pc \in StoragePcs => remounts \in {0, 1}
    /\ pc = "log_remount" => remounts = 0 /\ ~mounted
    /\ pc = "log_write" => mounted /\ log_result = "none"
    /\ (pc = "log_return" /\ exc = "none") =>
          /\ log_result \in {"written", "error", "skipped"}
          /\ log_result = "skipped" <=> (remounts = 1 /\ ~mounted)

C11_Step ==
    /\ remounts' # remounts =>
          \/ pc = "log_check" /\ remounts' = 0
          \/ pc = "log_remount" /\ remounts' = remounts + 1
    /\ (pc = "log_listdir" /\ exc' = "none") =>
          pc' = IF mounted' THEN "log_write" ELSE "log_remount"
    /\ (pc = "log_remount" /\ exc' = "none") =>
          /\ remounts' = 1
          /\ IF mounted'
             THEN pc' = "log_write" /\ log_result' = "none"
             ELSE pc' = "log_return" /\ log_result' = "skipped"
    /\ (pc = "log_write" /\ exc' = "none") =>
          pc' = "log_return" /\ log_result' \in {"written", "error"}
    /\ (pc = "log_return" /\ exc' = "none") => pc' = "can_check"
    /\ pc \in StoragePcs => exc' \in {"none", "KeyboardInterrupt"}

C11_RemountOnce == []C11_StateInv /\ [][C11_Step]_vars

\* the listing failed, the one remount succeeded, the record was written
C11_Witness ==
    /\ pc = "log_return"
    /\ remounts = 1
    /\ log_result = "written"
    /\ exc = "none"

\* C11 as stated: after a failed listing and a successful remount the
\* record of the cycle has been written when log_data_to_sd returns.
C11_WrittenAfterRemount ==
    (pc = "log_return" /\ exc = "none" /\ remounts = 1 /\ mounted) =>
        log_result = "written"

\* C12: the stop signal is acted upon only between bursts: whenever
\* KeyboardInterrupt is in flight, and after run has returned from it, the
\* ADC and CAN chip-selects are high and neither bus is locked.
BusesIdle == adc_cs /\ can_cs /\ ~spi0.locked /\ ~spi1.locked

C12_StopBetweenBursts ==
    (exc = "KeyboardInterrupt" \/ (pc = "done" /\ exit_kind = "returned")) => BusesIdle

\* run has returned from the stop signal with the CAN chip-select still low
C12_Witness ==
    /\ pc = "done"
    /\ exit_kind = "returned"
    /\ umount_calls = 1
    /\ ~can_cs

\* C13: for every channel index c in 0..6 the direct part of a sampling
\* cycle issues a 2-byte exchange whose first byte is 0x80 | (c << 4) and
\* whose second byte is 0x00.
Exchanges(log) == SelectSeq(log, LAMBDA e : e.op = "exchange")

EndOfDirect == pc = "mux_set" /\ phase = "mux" /\ i = 0

C13_DirectCommands0to6 ==
    EndOfDirect =>
        \A c \in 0..6 :
            \E n \in 1..Len(adc_log) :
                adc_log[n] = Ev("exchange", <<BitOr(128, c * 16), 0>>)

\* C13 amended: the direct part of a cycle issues exactly 7 exchanges, for
\* ADC inputs c = 1..7 in this order, each with first byte 0x80 | (c << 4)
\* and second byte 0x00; the command 0x80 of input 0 is issued in the
\* multiplexed part only.
C13_DirectCommands1to7 ==
    /\ EndOfDirect =>
          Exchanges(adc_log) = [c \in 1..7 |-> Ev("exchange", <<BitOr(128, c * 16), 0>>)]
    /\ (pc = "adc_unlock" /\ exc = "none") =>
          LET xs == Exchanges(adc_log)
          IN  /\ xs # << >>
              /\ xs[Len(xs)].bytes[2] = 0
              /\ xs[Len(xs)].bytes[1] = 128 <=> phase = "mux"

\* the direct reads of a later cycle are complete
C13_Witness ==
    /\ EndOfDirect
    /\ Len(Exchanges(adc_log)) = 7
    /\ current_time > 0

\* C14: for every logical channel c in 7..22 the four select lines are set
\* to the binary encoding of c - 7 (s0 the least significant bit), the
\* settle delays follow, and only then the conversion with command 0x80 is
\* issued; the select lines stay as set until the exchange whose result is
\* stored for c is over, so entry c receives the level of sub-channel c - 7.
MuxReadPcs == {"adc_select", "adc_lock", "adc_unlock", "adc_deselect"} \cup AdcTryPcs

SelectLinesOf(j) ==
    << j % 2 = 1, (j \div 2) % 2 = 1, (j \div 4) % 2 = 1, (j \div 8) % 2 = 1 >>

SettledBeforeExchange(log, j) ==
    /\ Len(log) >= 3
    /\ log[1] = Ev("mux", <<j>>)
    /\ log[2].op = "sleep" /\ log[2].bytes[1] >= 5
    /\ log[3].op = "sleep" /\ log[3].bytes[1] >= 50
    /\ \A n \in 1..Len(log) :
          log[n].op = "exchange" => n > 3 /\ log[n].bytes = <<128, 0>>

C14_StateInv ==
    (phase = "mux" /\ pc \in MuxReadPcs) =>
        /\ i \in 0..15
        /\ ~mux_cs
        /\ mux_s = SelectLinesOf(i)
        /\ SettledBeforeExchange(adc_log, i)

C14_Step ==
    /\ (phase = "mux" /\ pc \in MuxReadPcs) => mux_s' = mux_s /\ mux_cs' = mux_cs
    /\ (phase = "mux" /\ pc = "adc_deselect" /\ exc' = "none") =>
          /\ adc_data'[7 + i + 1] = MuxLevel(scene, i)
          /\ \A k \in 1..23 : k # 7 + i + 1 => adc_data'[k] = adc_data[k]

C14_MuxSettleThenConvert == []C14_StateInv /\ [][C14_Step]_vars

\* the exchange for logical channel 17 (sub-channel 10 = binary 1010) is over
C14_Witness ==
    /\ phase = "mux"
    /\ pc = "adc_deselect"
    /\ i = 10
    /\ mux_s = <<FALSE, TRUE, FALSE, TRUE>>
    /\ Decode(result) = MuxLevel(scene, 10)

\* C15: a chip-select is low only while its bus is locked: the CAN
\* chip-select implies the spi1 lock, the ADC chip-select implies the spi0
\* lock.
C15_SelectInsideLock ==
    /\ ~can_cs => spi1.locked
    /\ ~adc_cs => spi0.locked

\* read_adc_channel has asserted the ADC chip-select (line 90) and has not
\* yet taken the bus (line 94)
C15_Witness ==
    /\ pc = "adc_lock"
    /\ exc = "none"
    /\ ~adc_cs
    /\ ~spi0.locked

\* C16: when read_adc_channel, init_can_controller or send_can_message has
\* finished, by returning or by raising from the SPI transfer or from
\* building the frame buffer, its bus is unlocked and its chip-select high.
TransactionOver ==
    \/ pc \in {"log_check", "ctor_fields", "tx_sleep", "harness_done"}
    \/ pc \in {"finally", "crashed"} /\ exc = "Exception"

C16_AcquireTransactRelease == TransactionOver => BusesIdle

\* an SPI transfer of read_adc_channel raised: the bus is unlocked, the ADC
\* chip-select is still low
C16_Witness ==
    /\ pc = "finally"
    /\ exc = "Exception"
    /\ ~spi0.locked
    /\ ~adc_cs

\* C17: every ADC exchange is directly preceded, under the same hold of
\* the spi0 lock, by configure(2 MHz, phase 0, polarity 0), so it runs in
\* that configuration whatever the storage side set on the bus before.
AdcMode == [baudrate |-> 2000000, phase |-> 0, polarity |-> 0]

AdcConfigureEvent == Ev("configure", <<2000000, 0, 0>>)

C17_StateInv ==
    /\ pc = "adc_exchange" =>
          /\ spi0.locked
          /\ spi0.cfg = AdcMode
          /\ adc_log # << >>
          /\ adc_log[Len(adc_log)] = AdcConfigureEvent
    /\ \A n \in 1..Len(adc_log) :
          adc_log[n].op = "exchange" => n > 1 /\ adc_log[n - 1] = AdcConfigureEvent

C17_Step ==
    /\ (pc # "adc_exchange" /\ pc' = "adc_exchange") =>
          pc = "adc_configure" /\ spi0.locked /\ spi0'.locked
    /\ (pc # "adc_configure" /\ pc' = "adc_configure") =>
          pc = "adc_lock" /\ ~spi0.locked /\ spi0'.locked
    /\ Len(Exchanges(adc_log')) > Len(Exchanges(adc_log)) =>
          pc = "adc_exchange" /\ spi0.locked /\ spi0.cfg = AdcMode

C17_ConfigurePerTransaction == []C17_StateInv /\ [][C17_Step]_vars

\* the first exchange after a storage write, which left spi0 in the
\* configuration of the SD card
C17_Witness ==
    /\ pc = "adc_unlock"
    /\ exc = "none"
    /\ phase = "direct"
    /\ i = 1
    /\ log_result = "written"
    /\ Len(Exchanges(adc_log)) = 1
    /\ spi0.cfg = AdcMode

\* C18: adc_data does not change between the end of sampling and the next
\* sampling: log_data_to_sd and send_adc_data_via_can leave its 23 entries
\* alone, the bytes transmitted are those of the vector the storage call
\* saw, and sampling never starts while a transmission is in progress.
C18_StateInv ==
    /\ pc \in (LoopPcs \ {"run_top"}) => Len(adc_data) = 23
    /\ pc \in (TransmitPcs \ {"tx_pack"}) => all_bytes = PackAll(adc_data)
    /\ pc = "tx_return" => Received(frames) = adc_data
    /\ pc \in (SamplePcs \cup {"run_top"}) => can_cs /\ ~spi1.locked

C18_Step ==
    /\ (pc \in LoopPcs /\ pc # "adc_deselect") => adc_data' = adc_data
    /\ pc \in (StoragePcs \cup TransmitPcs \cup {"log_check", "can_check", "loop_sleep"}) =>
          adc_data' = adc_data
    /\ (pc \in TransmitPcs /\ pc # "tx_return") => pc' \notin (SamplePcs \cup {"run_top"})

C18_VectorStable == []C18_StateInv /\ [][C18_Step]_vars

\* storage and transmission both fired in this iteration; the record was
\* written and the six frames carry the same vector
C18_Witness ==
    /\ pc = "tx_return"
    /\ log_result = "written"
    /\ last_log_time = current_time
    /\ Len(frames) = 6
    /\ Received(frames) = adc_data
    /\ adc_data[2] # 0

\* C19: the sampler (read_adc_channel, sample_all_channels) locks,
\* configures and transfers on spi0 only and leaves spi1 and the CAN
\* chip-select alone; the CAN driver (init_can_controller,
\* send_can_message, send_adc_data_via_can) locks and transfers on spi1
\* only and leaves spi0, the ADC chip-select and the multiplexer lines alone.
InitCanPcs == CtorPcs \ {"ctor_mount", "ctor_fields"}

CanDriverPcs == InitCanPcs \cup TransmitPcs

C19_Step ==
    /\ pc \in SamplePcs =>
          /\ spi1' = spi1
          /\ can_cs' = can_cs
          /\ canv' = canv
    /\ pc \in CanDriverPcs =>
          /\ spi0' = spi0
          /\ adc_cs' = adc_cs
          /\ mux_cs' = mux_cs
          /\ mux_s' = mux_s
          /\ adc_log' = adc_log
    /\ spi0'.locked # spi0.locked => pc \in SamplePcs
    /\ adc_cs' # adc_cs => pc \in SamplePcs
    /\ spi1' # spi1 => pc \in CanDriverPcs
    /\ can_cs' # can_cs => pc \in CanDriverPcs
    /\ can_log' # can_log => pc \in CanDriverPcs

C19_BusesDisjoint == [][C19_Step]_vars

\* in the middle of a transmit burst the sampling bus and its lines are as
\* the sampler left them after the read of sub-channel 15
C19_Witness ==
    /\ pc = "send_rts_write"
    /\ caller = "send_adc_data_via_can"
    /\ spi1.locked
    /\ ~can_cs
    /\ ~spi0.locked
    /\ adc_cs
    /\ mux_s = <<TRUE, TRUE, TRUE, TRUE>>
    /\ spi0.cfg = AdcMode

\* C20 as stated: in every iteration whose storage branch fired, whatever
\* became of the record, the transmission takes place as well.
StorageFiredThisIteration == log_calls > 0 /\ last_log_time = current_time

C20_TransmissionEveryStorage ==
    (pc = "can_check" /\ StorageFiredThisIteration) => current_time - last_can_time >= 5

\* C20 amended: whenever the storage branch fires, last_log_time becomes
\* the iteration's clock reading whether the record was written, skipped or
\* lost to an error; no storage error reaches run; the next storage call is
\* at least 1.0 s later; the transmission check of the iteration still
\* runs and fires exactly when the transmission is due.
C20_StateInv ==
    /\ pc = "log_return" => log_result \in {"written", "skipped", "error"}
    /\ pc \in StoragePcs => exc # "Exception"
    /\ pc \in StoragePcs => current_time - last_log_time >= 10

C20_Step ==
    /\ (pc = "log_return" /\ exc' = "none") =>
          /\ last_log_time' = current_time
          /\ pc' = "can_check"
          /\ log_result' = log_result
    /\ (pc = "can_check" /\ exc' = "none") =>
          pc' = IF current_time - last_can_time >= 5 THEN "tx_pack" ELSE "loop_sleep"
    /\ (pc \in StoragePcs /\ exc' = "none") => pc' \in (StoragePcs \cup {"can_check"})
    /\ (pc = "log_check" /\ pc' = "log_listdir" /\ log_calls > 0) =>
          current_time >= last_log_time + 10

C20_NoEarlyRetry == []C20_StateInv /\ [][C20_Step]_vars

\* the record was lost to a write error; the time stamp has moved on and
\* the transmission of the iteration is due
C20_Witness ==
    /\ pc = "can_check"
    /\ log_result = "error"
    /\ StorageFiredThisIteration
    /\ current_time - last_can_time >= 5

====
